---- MODULE Spec2Model ----
(***************************************************************************)
(* Model of thales_vendas.py: a password-gated Streamlit sales dashboard.  *)
(* One script run (render cycle) is a sequence of steps: login gate,       *)
(* cached load_data, sidebar filters, filter application, empty guard,     *)
(* metrics, charts, table.  The session state, the st.cache_data cache and *)
(* the secret payload persist between runs.                                *)
(*                                                                         *)
(* Numbers.  Amounts in the payload are non-negative integers.  The        *)
(* thresholds of get_status are evaluated in IEEE-754 binary64, as Python  *)
(* evaluates them: the quotient by 3 and the products by the literals 1.1  *)
(* and 0.9 are each rounded to nearest-even on a 53-bit significand.       *)
(* Significands are held as little-endian sequences of 15-bit limbs.       *)
(* The column Media_Trimestre_Ant is stored in thirds (AGO + SET + OUT),   *)
(* the exact value whose correctly rounded double the code stores; the     *)
(* sums of the aggregator are taken over these exact values (the rounding  *)
(* of the float additions is not modelled).                                *)
(***************************************************************************)
EXTENDS Integers, Sequences, FiniteSets, TLC

\* ------------------------------------------------------------- bounds

MaxRecords == 2     \* records in a payload
MaxAmtK == 4        \* amounts of the classifier grid are 0, AmtStep, ..., MaxAmtK * AmtStep
AmtStep == 5

\* --------------------------------------------- binary64 arithmetic

LimbBits == 15
Precision == 53
Base == 2^LimbBits

RECURSIVE Pow2(_)
Pow2(n) == IF n = 0 THEN 1 ELSE 2 * Pow2(n - 1)

RECURSIVE BigNorm(_)
BigNorm(x) ==
    IF Len(x) > 0 /\ x[Len(x)] = 0 THEN BigNorm(SubSeq(x, 1, Len(x) - 1)) ELSE x

RECURSIVE BigFromNat(_)
BigFromNat(n) == IF n = 0 THEN <<>> ELSE <<n % Base>> \o BigFromNat(n \div Base)

RECURSIVE BigMulSmallC(_, _, _)
BigMulSmallC(x, k, carry) ==
    IF x = <<>> THEN BigFromNat(carry)
    ELSE LET t == x[1] * k + carry
         IN  <<t % Base>> \o BigMulSmallC(Tail(x), k, t \div Base)

BigMulSmall(x, k) == BigNorm(BigMulSmallC(x, k, 0))

RECURSIVE BigAddC(_, _, _)
BigAddC(x, y, carry) ==
    IF x = <<>> /\ y = <<>> THEN BigFromNat(carry)
    ELSE LET a == IF x = <<>> THEN 0 ELSE x[1]
             b == IF y = <<>> THEN 0 ELSE y[1]
             t == a + b + carry
         IN  <<t % Base>> \o BigAddC(IF x = <<>> THEN x ELSE Tail(x),
                                      IF y = <<>> THEN y ELSE Tail(y),
                                      t \div Base)

BigAdd(x, y) == BigAddC(x, y, 0)

BigShiftLimbs(x, n) == IF x = <<>> THEN x ELSE [i \in 1..n |-> 0] \o x

RECURSIVE BigMul(_, _)
BigMul(x, y) ==
    IF y = <<>> THEN <<>>
    ELSE BigAdd(BigMulSmall(x, y[1]), BigShiftLimbs(BigMul(x, Tail(y)), 1))

\* <<quotient limbs from limb i up, remainder>> of x by a divisor d < Base
RECURSIVE BigDivSmallR(_, _, _)
BigDivSmallR(x, d, i) ==
    IF i > Len(x) THEN <<<<>>, 0>>
    ELSE LET hi == BigDivSmallR(x, d, i + 1)
             t  == hi[2] * Base + x[i]
         IN  <<<<t \div d>> \o hi[1], t % d>>

BigDivSmall(x, d) == LET r == BigDivSmallR(x, d, 1) IN <<BigNorm(r[1]), r[2]>>

RECURSIVE BigLessFrom(_, _, _)
BigLessFrom(x, y, i) ==
    IF i = 0 THEN FALSE
    ELSE IF x[i] # y[i] THEN x[i] < y[i]
    ELSE BigLessFrom(x, y, i - 1)

BigLess(x, y) ==
    IF Len(x) # Len(y) THEN Len(x) < Len(y) ELSE BigLessFrom(x, y, Len(x))

RECURSIVE BitLen(_)
BitLen(n) == IF n = 0 THEN 0 ELSE 1 + BitLen(n \div 2)

BigBits(x) == IF x = <<>> THEN 0 ELSE LimbBits * (Len(x) - 1) + BitLen(x[Len(x)])

BigShl(x, n) == BigShiftLimbs(BigMulSmall(x, Pow2(n % LimbBits)), n \div LimbBits)

BigShr(x, n) ==
    IF n \div LimbBits >= Len(x) THEN <<>>
    ELSE BigDivSmall(SubSeq(x, n \div LimbBits + 1, Len(x)), Pow2(n % LimbBits))[1]

BigOdd(x) == x # <<>> /\ x[1] % 2 = 1

\* x / 2^n rounded to nearest, ties to even
BigRoundShr(x, n) ==
    IF n = 0 THEN x
    ELSE LET q    == BigShr(x, n)
             half == BigShl(BigAdd(BigShl(q, 1), <<1>>), n - 1)
             up   == BigAdd(q, <<1>>)
         IN  IF BigLess(x, half) THEN q
             ELSE IF BigLess(half, x) THEN up
             ELSE IF BigOdd(q) THEN up ELSE q

\* A non-negative double is m * 2^e with a 53-bit m (or m empty: zero), or NaN.
FZero == [nan |-> FALSE, m |-> <<>>, e |-> 0]
FNaN == [nan |-> TRUE, m |-> <<>>, e |-> 0]

\* the double nearest to x * 2^e
FRound(x, e) ==
    IF x = <<>> THEN FZero
    ELSE LET bits == BigBits(x)
         IN  IF bits <= Precision
             THEN [nan |-> FALSE, m |-> BigShl(x, Precision - bits),
                   e |-> e - (Precision - bits)]
             ELSE LET n == bits - Precision
                      q == BigRoundShr(x, n)
                  IN  IF BigBits(q) > Precision
                      THEN [nan |-> FALSE, m |-> BigShr(q, 1), e |-> e + n + 1]
                      ELSE [nan |-> FALSE, m |-> q, e |-> e + n]

FFromInt(n) == FRound(BigFromNat(n), 0)

\* f / d for a small positive integer d, correctly rounded (the remainder of the
\* long division is kept as a sticky bit below the rounding position)
FDivInt(f, d) ==
    IF f.nan THEN FNaN
    ELSE LET qr     == BigDivSmall(BigShl(f.m, Precision + 2), d)
             sticky == IF qr[2] = 0 THEN <<>> ELSE <<1>>
         IN  FRound(BigAdd(BigShl(qr[1], 1), sticky), f.e - Precision - 3)

FMul(f, g) ==
    IF f.nan \/ g.nan THEN FNaN ELSE FRound(BigMul(f.m, g.m), f.e + g.e)

\* f < g; every comparison with NaN is false
FLess(f, g) ==
    IF f.nan \/ g.nan THEN FALSE
    ELSE IF g.m = <<>> THEN FALSE
    ELSE IF f.m = <<>> THEN TRUE
    ELSE IF f.e >= g.e THEN BigLess(BigShl(f.m, f.e - g.e), g.m)
    ELSE BigLess(f.m, BigShl(g.m, g.e - f.e))

\* the literals 1.1 and 0.9: the doubles nearest to 11/10 and 9/10
F1_1 == FDivInt(FFromInt(11), 10)
F0_9 == FDivInt(FFromInt(9), 10)

\* ------------------------------------------------------ data model

\* A field of a payload record: a number, a non-numeric string, or absent.
Num(n) == [t |-> "num", v |-> n]
StrVal == [t |-> "str", v |-> 0]
Missing == [t |-> "missing", v |-> 0]
\* A cell of the data frame: a number or NaN.
NaN == [t |-> "nan", v |-> 0]

Cities == <<"Recife", "Olinda", "Caruaru", "Petrolina">>
MonthCols == {"AGO", "SET", "OUT"}

EmptyFrame == [cols |-> FALSE, rows |-> <<>>]

\* pd.DataFrame(list of dicts): a column exists when some record has the key;
\* a record without the key gets NaN in it.
HasColumn(recs, col) == \E i \in 1..Len(recs) : recs[i][col].t # "missing"

Cell(f) == IF f.t = "missing" THEN NaN ELSE f

\* df['AGO'] + df['SET'] + df['OUT'], kept in thirds of the average
Media3(rec) ==
    IF \E c \in MonthCols : rec[c].t = "missing" THEN NaN
    ELSE Num(rec.AGO.v + rec.SET.v + rec.OUT.v)

CellF(c) == IF c.t = "nan" THEN FNaN ELSE FFromInt(c.v)

\* row['Media_Trimestre_Ant'] as the double the code holds
MediaF(row) == FDivInt(CellF(row.Media_Trimestre_Ant), 3)

\* The label "Estavel" is the source's label spelled without its accent.
get_status(row) ==
    IF row.NOV.t = "num" /\ row.NOV.v = 0 THEN "Sem Venda"
    ELSE IF FLess(FMul(MediaF(row), F1_1), CellF(row.NOV)) THEN "Crescimento"
    ELSE IF FLess(CellF(row.NOV), FMul(MediaF(row), F0_9)) THEN "Queda"
    ELSE "Estavel"

MakeRow(rec) ==
    LET base == [Cidade |-> rec.Cidade, AGO |-> Cell(rec.AGO), SET |-> Cell(rec.SET),
                 OUT |-> Cell(rec.OUT), NOV |-> Cell(rec.NOV),
                 Media_Trimestre_Ant |-> Media3(rec)]
    IN  [Cidade |-> base.Cidade, AGO |-> base.AGO, SET |-> base.SET, OUT |-> base.OUT,
         NOV |-> base.NOV, Media_Trimestre_Ant |-> base.Media_Trimestre_Ant,
         Status |-> get_status(base)]

\* The exception load_data's body raises on the payload, "" when it raises none.
LoadException(p) ==
    IF ~p.json THEN "JSONDecodeError"
    ELSE IF \E c \in MonthCols : ~HasColumn(p.recs, c) THEN "KeyError"
    ELSE IF \E i \in 1..Len(p.recs) : \E c \in MonthCols : p.recs[i][c].t = "str"
         THEN "TypeError"
    ELSE IF ~HasColumn(p.recs, "NOV") THEN "KeyError"
    ELSE IF \E i \in 1..Len(p.recs) : p.recs[i].NOV.t = "str" THEN "TypeError"
    ELSE ""

\* load_data's body: the labeled frame, or the error shown and an empty frame
load_data(p) ==
    LET e == LoadException(p)
    IN  IF e # "" THEN [frame |-> EmptyFrame, err |-> e]
        ELSE [frame |-> [cols |-> TRUE, rows |-> [i \in 1..Len(p.recs) |-> MakeRow(p.recs[i])]],
              err |-> ""]

\* ------------------------------------------------- filter and views

\* sorted(df_full[col].unique())
Unique(rows, col) == {rows[i][col] : i \in 1..Len(rows)}

\* df_full[col].isin(sel): the boolean mask, one entry per row
isin(rows, col, sel) == [i \in 1..Len(rows) |-> rows[i][col] \in sel]

\* rows[mask]: the rows whose mask entry is true, in their order
RECURSIVE BoolIndex(_, _)
BoolIndex(rows, mask) ==
    IF rows = <<>> THEN <<>>
    ELSE (IF mask[1] THEN <<rows[1]>> ELSE <<>>) \o BoolIndex(Tail(rows), Tail(mask))

FilterRowsAny(rows, cs, ss) ==
    LET m1 == isin(rows, "Cidade", cs)
        m2 == isin(rows, "Status", ss)
    IN  BoolIndex(rows, [i \in 1..Len(rows) |-> m1[i] \/ m2[i]])

\* df_full[(df_full['Cidade'].isin(cidades_sel)) & (df_full['Status'].isin(status_sel))]
FilterRows(rows, cs, ss) ==
    LET m1 == isin(rows, "Cidade", cs)
        m2 == isin(rows, "Status", ss)
    IN  BoolIndex(rows, [i \in 1..Len(rows) |-> m1[i] /\ m2[i]])

BaseAfterFilterInPlace(frame, cs, ss) ==
    [cols |-> frame.cols, rows |-> FilterRows(frame.rows, cs, ss)]

\* Boolean indexing builds a new frame: the indexed frame is left as it was.
BaseAfterFilter(frame, cs, ss) == frame

df_emptyNever(rows) == FALSE

\* df.empty
df_empty(rows) == Len(rows) = 0

\* Series.sum(): NaN entries are skipped
RECURSIVE SumCol(_, _)
SumCol(rows, col) ==
    IF rows = <<>> THEN 0
    ELSE (IF rows[1][col].t = "num" THEN rows[1][col].v ELSE 0) + SumCol(Tail(rows), col)

variacaoUnguarded(total_nov, total_media3) ==
    [num |-> (3 * total_nov - total_media3) * 100, den |-> total_media3]

\* ((total_nov / total_media) - 1) * 100 if total_media > 0 else 0, as the
\* fraction num / den; total_media is total_media3 / 3
variacao(total_nov, total_media3) ==
    IF total_media3 > 0
    THEN [num |-> (3 * total_nov - total_media3) * 100, den |-> total_media3]
    ELSE [num |-> 0, den |-> 1]

NoMetrics == [shown |-> FALSE, total_nov |-> 0, total_media3 |-> 0,
              variacao |-> [num |-> 0, den |-> 1]]

Aggregate(rows) ==
    LET total_nov    == SumCol(rows, "NOV")
        total_media3 == SumCol(rows, "Media_Trimestre_Ant")
    IN  [shown |-> TRUE, total_nov |-> total_nov, total_media3 |-> total_media3,
         variacao |-> variacao(total_nov, total_media3)]

TopN == 15

\* a <= b in sort_values' order: numbers ascending, NaN last
CellLeq(a, b) == b.t = "nan" \/ (a.t = "num" /\ a.v <= b.v)

RECURSIVE InsertSorted(_, _, _)
InsertSorted(r, sorted, col) ==
    IF sorted = <<>> THEN <<r>>
    ELSE IF CellLeq(sorted[1][col], r[col])
         THEN <<sorted[1]>> \o InsertSorted(r, Tail(sorted), col)
         ELSE <<r>> \o sorted

\* df_in.sort_values(col, ascending=True): a new, sorted frame
RECURSIVE sort_values(_, _)
sort_values(rows, col) ==
    IF rows = <<>> THEN <<>>
    ELSE InsertSorted(rows[Len(rows)], sort_values(SubSeq(rows, 1, Len(rows) - 1), col), col)

tail(rows, n) == IF Len(rows) <= n THEN rows ELSE SubSeq(rows, Len(rows) - n + 1, Len(rows))

\* the bars of one chart: the top-15 rows by col, as (Cidade, value)
plot_bar(df_in, col) ==
    LET df_sorted == tail(sort_values(df_in, col), TopN)
    IN  [i \in 1..Len(df_sorted) |-> [y |-> df_sorted[i].Cidade, x |-> df_sorted[i][col]]]

\* df[['Cidade', 'Media_Trimestre_Ant', 'NOV']].melt(...) with Periodo mapped
df_comp(rows) ==
    [i \in 1..Len(rows) |->
        [Cidade |-> rows[i].Cidade, Periodo |-> "Media 3 Meses",
         Vendas |-> rows[i].Media_Trimestre_Ant]]
    \o [i \in 1..Len(rows) |->
        [Cidade |-> rows[i].Cidade, Periodo |-> "Novembro", Vendas |-> rows[i].NOV]]

\* --------------------------------------------------------- secrets

SENHA_ACESSO == "certa"
Senhas == {"certa", "errada", "outra"}

senha_okAny(input) == TRUE

\* st.session_state.senha_input == st.secrets["SENHA_ACESSO"]
senha_ok(input) == input = SENHA_ACESSO

BaseAmt == 10

Rec(c, a, s, o, n) == [Cidade |-> c, AGO |-> a, SET |-> s, OUT |-> o, NOV |-> n]

InvalidJson == [json |-> FALSE, recs |-> <<>>]

\* NOV of the first record of a dashboard payload: no sale, decline, stable, growth,
\* absent, non-numeric (against AGO = SET = OUT = BaseAmt); of the later records:
\* growth or absent
NovFields == {Num(0), Num(BaseAmt \div 2), Num(BaseAmt), Num(2 * BaseAmt), Missing, StrVal}
LaterNovFields == {Num(2 * BaseAmt), Missing}

NovChoices(n) == {f \in [1..n -> NovFields] : \A i \in 2..n : f[i] \in LaterNovFields}

Payloads ==
    {InvalidJson} \cup
    UNION {{[json |-> TRUE,
             recs |-> [i \in 1..n |->
                        Rec(Cities[i], Num(BaseAmt), Num(BaseAmt), Num(BaseAmt), f[i])]]
            : f \in NovChoices(n)} : n \in 0..MaxRecords}

VARIABLES DADOS_VENDAS, cache, logado, senha_input, pc, halt, out,
          df_full, cidades_sel, status_sel, df, metrics, charts

vars == <<DADOS_VENDAS, cache, logado, senha_input, pc, halt, out,
          df_full, cidades_sel, status_sel, df, metrics, charts>>

NoCache == [set |-> FALSE, frame |-> EmptyFrame, err |-> ""]

Init ==
    /\ DADOS_VENDAS \in Payloads
    /\ cache = NoCache
    /\ logado = FALSE
    /\ senha_input = ""
    /\ pc = "gate"
    /\ halt = "running"
    /\ out = <<>>
    /\ df_full = EmptyFrame
    /\ cidades_sel = {}
    /\ status_sel = {}
    /\ df = <<>>
    /\ metrics = NoMetrics
    /\ charts = <<>>

\* A script run starts from the top: nothing of the last run's page is kept.
RunStart(elements) ==
    /\ pc' = "gate"
    /\ halt' = "running"
    /\ out' = elements
    /\ df_full' = EmptyFrame
    /\ cidades_sel' = {}
    /\ status_sel' = {}
    /\ df' = <<>>
    /\ metrics' = NoMetrics
    /\ charts' = <<>>

\* The password widget changes: on_change runs verificar_senha, then the script reruns.
SubmitSenha(pw) ==
    /\ pc = "idle"
    /\ halt = "login"
    /\ pw # senha_input
    /\ senha_input' = pw
    /\ logado' = (logado \/ senha_ok(pw))
    /\ RunStart(IF senha_ok(pw) THEN <<>> ELSE <<"error_senha">>)
    /\ UNCHANGED <<DADOS_VENDAS, cache>>

\* Any other interaction (a filter widget changes, the page is reloaded in the session).
Rerun ==
    /\ pc = "idle"
    /\ RunStart(<<>>)
    /\ UNCHANGED <<DADOS_VENDAS, cache, logado, senha_input>>

\* A new browser session: a fresh session_state, the process-wide cache is kept.
NewSession ==
    /\ pc = "idle"
    /\ logado' = FALSE
    /\ senha_input' = ""
    /\ RunStart(<<>>)
    /\ UNCHANGED <<DADOS_VENDAS, cache>>

\* The secret holding the payload is edited between two runs.
ChangePayload(p) ==
    /\ pc = "idle"
    /\ p # DADOS_VENDAS
    /\ DADOS_VENDAS' = p
    /\ UNCHANGED <<cache, logado, senha_input, pc, halt, out,
                   df_full, cidades_sel, status_sel, df, metrics, charts>>

\* lines 26-30
Gate ==
    /\ pc = "gate"
    /\ IF ~logado
       THEN /\ out' = out \o <<"login_title", "login_markdown", "senha_input">>
            /\ pc' = "idle"
            /\ halt' = "login"
       ELSE /\ pc' = "load"
            /\ UNCHANGED <<out, halt>>
    /\ UNCHANGED <<DADOS_VENDAS, cache, logado, senha_input,
                   df_full, cidades_sel, status_sel, df, metrics, charts>>

\* @st.cache_data on a function without parameters: one entry, whatever the secrets hold
CacheHit(c, payload) == c.set

ErrorElements(err) == IF err = "" THEN <<>> ELSE <<"error_load">>

\* df_full = load_data(): the cached value and its replayed st.error, or the body's
LoadData ==
    /\ pc = "load"
    /\ IF CacheHit(cache, DADOS_VENDAS)
       THEN /\ df_full' = cache.frame
            /\ out' = out \o ErrorElements(cache.err)
            /\ UNCHANGED cache
       ELSE LET r == load_data(DADOS_VENDAS)
            IN  /\ cache' = [set |-> TRUE, frame |-> r.frame, err |-> r.err]
                /\ df_full' = r.frame
                /\ out' = out \o ErrorElements(r.err)
    /\ pc' = "sidebar"
    /\ UNCHANGED <<DADOS_VENDAS, logado, senha_input, halt,
                   cidades_sel, status_sel, df, metrics, charts>>

\* lines 69-100; df_full['Cidade'] raises KeyError on the frame without columns
SidebarRaises ==
    /\ pc = "sidebar"
    /\ ~df_full.cols
    /\ out' = out \o <<"style", "sidebar_header", "exception">>
    /\ pc' = "idle"
    /\ halt' = "exception"
    /\ UNCHANGED <<DADOS_VENDAS, cache, logado, senha_input,
                   df_full, cidades_sel, status_sel, df, metrics, charts>>

Sidebar(cs, ss) ==
    /\ pc = "sidebar"
    /\ df_full.cols
    /\ cs \subseteq Unique(df_full.rows, "Cidade")
    /\ ss \subseteq Unique(df_full.rows, "Status")
    /\ cidades_sel' = cs
    /\ status_sel' = ss
    /\ out' = out \o <<"style", "sidebar_header", "multiselect_cidades", "multiselect_status">>
    /\ pc' = "filter"
    /\ UNCHANGED <<DADOS_VENDAS, cache, logado, senha_input, halt,
                   df_full, df, metrics, charts>>

\* lines 103-106
Filter ==
    /\ pc = "filter"
    /\ df' = FilterRows(df_full.rows, cidades_sel, status_sel)
    /\ df_full' = BaseAfterFilter(df_full, cidades_sel, status_sel)
    /\ pc' = "guard"
    /\ UNCHANGED <<DADOS_VENDAS, cache, logado, senha_input, halt, out,
                   cidades_sel, status_sel, metrics, charts>>

\* lines 108-110
EmptyGuard ==
    /\ pc = "guard"
    /\ IF df_empty(df)
       THEN /\ out' = out \o <<"warning">>
            /\ pc' = "idle"
            /\ halt' = "empty"
       ELSE /\ pc' = "metrics"
            /\ UNCHANGED <<out, halt>>
    /\ UNCHANGED <<DADOS_VENDAS, cache, logado, senha_input,
                   df_full, cidades_sel, status_sel, df, metrics, charts>>

\* lines 115-133
Metrics ==
    /\ pc = "metrics"
    /\ metrics' = Aggregate(df)
    /\ out' = out \o <<"title", "markdown", "metric", "metric", "metric", "divider">>
    /\ pc' = "charts"
    /\ UNCHANGED <<DADOS_VENDAS, cache, logado, senha_input, halt,
                   df_full, cidades_sel, status_sel, df, charts>>

\* lines 136-184
Charts ==
    /\ pc = "charts"
    /\ charts' = <<plot_bar(df, "AGO"), plot_bar(df, "SET"), plot_bar(df, "OUT"),
                   plot_bar(df, "NOV"), df_comp(df)>>
    /\ out' = out \o <<"chart", "chart", "chart", "chart", "subheader", "chart">>
    /\ pc' = "table"
    /\ UNCHANGED <<DADOS_VENDAS, cache, logado, senha_input, halt,
                   df_full, cidades_sel, status_sel, df, metrics>>

\* lines 189-214
Table ==
    /\ pc = "table"
    /\ out' = out \o <<"markdown", "dataframe">>
    /\ pc' = "idle"
    /\ halt' = "end"
    /\ UNCHANGED <<DADOS_VENDAS, cache, logado, senha_input,
                   df_full, cidades_sel, status_sel, df, metrics, charts>>

Script ==
    \/ Gate
    \/ LoadData
    \/ SidebarRaises
    \/ \E cs \in SUBSET {Cities[i] : i \in 1..Len(Cities)} :
         \E ss \in SUBSET {"Sem Venda", "Crescimento", "Queda", "Estavel"} : Sidebar(cs, ss)
    \/ Filter
    \/ EmptyGuard
    \/ Metrics
    \/ Charts
    \/ Table

Next ==
    \/ Script
    \/ \E pw \in Senhas : SubmitSenha(pw)
    \/ Rerun
    \/ NewSession
    \/ \E p \in Payloads : ChangePayload(p)

Spec == Init /\ [][Next]_vars

\* ------------------------------------------- load_data on its own

Amounts == {k * AmtStep : k \in 0..MaxAmtK}

\* one well-formed record, every month over the grid of amounts
GridPayloads ==
    {[json |-> TRUE, recs |-> <<Rec(Cities[1], Num(a), Num(s), Num(o), Num(n))>>]
        : a \in Amounts, s \in Amounts, o \in Amounts, n \in Amounts}

FieldVals == {Num(BaseAmt), Missing, StrVal}

FieldRecs(c) ==
    {Rec(c, a, s, o, n) : a \in FieldVals, s \in FieldVals, o \in FieldVals, n \in FieldVals}

WellFormedRec(c) == Rec(c, Num(BaseAmt), Num(BaseAmt), Num(BaseAmt), Num(BaseAmt))

\* up to MaxRecords records: in the first every amount is present, absent or
\* non-numeric, the later ones are well-formed
FieldPayloads ==
    UNION {{[json |-> TRUE,
             recs |-> [i \in 1..n |-> IF i = 1 THEN r ELSE WellFormedRec(Cities[i])]]
            : r \in FieldRecs(Cities[1])} : n \in 1..MaxRecords}

LoadPayloads == GridPayloads \cup FieldPayloads \cup Payloads

\* load_data called once, by an authenticated run, on each payload
InitLoad ==
    /\ DADOS_VENDAS \in LoadPayloads
    /\ cache = NoCache
    /\ logado = TRUE
    /\ senha_input = SENHA_ACESSO
    /\ pc = "load"
    /\ halt = "running"
    /\ out = <<>>
    /\ df_full = EmptyFrame
    /\ cidades_sel = {}
    /\ status_sel = {}
    /\ df = <<>>
    /\ metrics = NoMetrics
    /\ charts = <<>>

NextLoad == LoadData

SpecLoad == InitLoad /\ [][NextLoad]_vars

\* ------------------------------------------ the aggregator on its own

AggRows ==
    {MakeRow(Rec(Cities[1], Num(a), Num(a), Num(0), Num(n))) : a \in Amounts, n \in Amounts}

\* every sequence of up to MaxRecords labeled records, the empty one included
AggInputs == UNION {[1..n -> AggRows] : n \in 0..MaxRecords}

InitAgg ==
    /\ DADOS_VENDAS = InvalidJson
    /\ cache = NoCache
    /\ logado = TRUE
    /\ senha_input = SENHA_ACESSO
    /\ pc = "metrics"
    /\ halt = "running"
    /\ out = <<>>
    /\ df \in AggInputs
    /\ df_full = [cols |-> TRUE, rows |-> df]
    /\ cidades_sel = {}
    /\ status_sel = {}
    /\ metrics = NoMetrics
    /\ charts = <<>>

NextAgg == Metrics

SpecAgg == InitAgg /\ [][NextAgg]_vars

\* ------------------------------------------------------------ claims

Has(tag) == \E i \in 1..Len(out) : out[i] = tag

FilterWidgets == {"multiselect_cidades", "multiselect_status"}
DashboardElements == {"title", "metric", "chart", "dataframe"}

HasAny(tags) == \E i \in 1..Len(out) : out[i] \in tags

\* the run is past the call of load_data
PastLoad ==
    \/ pc \in {"sidebar", "filter", "guard", "metrics", "charts", "table"}
    \/ pc = "idle" /\ halt \in {"exception", "empty", "end"}

\* the run is past the filter
PastFilter ==
    \/ pc \in {"guard", "metrics", "charts", "table"}
    \/ pc = "idle" /\ halt \in {"empty", "end"}

WellFormed(row) == \A c \in {"AGO", "SET", "OUT", "NOV"} : row[c].t = "num"

\* the rule of the specification in exact arithmetic:
\* NOV > avg * 1.1 iff 30 * NOV > 11 * (AGO + SET + OUT), NOV < avg * 0.9 iff 30 * NOV < 9 * (...)
ExactStatus(ago, set, out_, nov) ==
    IF nov = 0 THEN "Sem Venda"
    ELSE IF 30 * nov > 11 * (ago + set + out_) THEN "Crescimento"
    ELSE IF 30 * nov < 9 * (ago + set + out_) THEN "Queda"
    ELSE "Estavel"

HasMalformedRecord(p) ==
    /\ p.json
    /\ \E i \in 1..Len(p.recs) : \E c \in {"AGO", "SET", "OUT", "NOV"} :
          p.recs[i][c].t \in {"missing", "str"}

\* C1: a run whose load failed shows the load error and halts without an unhandled
\* exception, and renders no filter widget, metric, chart or table.
C1_LoadFailureHaltsCleanly ==
    (pc = "idle" /\ halt # "login" /\ ~df_full.cols) =>
        /\ Has("error_load")
        /\ halt # "exception"
        /\ ~HasAny(FilterWidgets \cup DashboardElements)

\* C2: load_data on a payload with a malformed record (a required field absent on it,
\* or a non-numeric amount) signals the failure and returns no labeled record.
C2_LoadAllOrNothing ==
    (pc = "sidebar" /\ HasMalformedRecord(DADOS_VENDAS)) =>
        /\ Has("error_load")
        /\ ~df_full.cols
        /\ df_full.rows = <<>>

\* C3: every record with non-negative AGO, SET, OUT, NOV gets the label of the first
\* matching rule: NOV = 0 NoSale, NOV > avg * 1.1 Growth, NOV < avg * 0.9 Decline,
\* else Stable, with avg = (AGO + SET + OUT) / 3.
C3_ClassifierRule ==
    pc = "sidebar" =>
        \A i \in 1..Len(df_full.rows) :
            LET r == df_full.rows[i]
            IN  WellFormed(r) =>
                    r.Status = ExactStatus(r.AGO.v, r.SET.v, r.OUT.v, r.NOV.v)

\* C4: a record with NOV > 0 and NOV exactly avg * 1.1 or exactly avg * 0.9 is Stable.
C4_StrictThresholds ==
    pc = "sidebar" =>
        \A i \in 1..Len(df_full.rows) :
            LET r == df_full.rows[i]
                s == r.AGO.v + r.SET.v + r.OUT.v
            IN  (WellFormed(r) /\ r.NOV.v > 0 /\ (30 * r.NOV.v = 11 * s \/ 30 * r.NOV.v = 9 * s))
                    => r.Status = "Estavel"

\* C5: the filter result is the subsequence of the dataset's records whose city is
\* selected and whose status is selected, in the dataset's order; with every city and
\* every status of the dataset selected it is the whole dataset.
C5_FilterIsStableSubsequence ==
    PastFilter =>
        LET Selected(r) == r.Cidade \in cidades_sel /\ r.Status \in status_sel
        IN  /\ df = SelectSeq(df_full.rows, Selected)
            /\ (/\ cidades_sel = Unique(df_full.rows, "Cidade")
                /\ status_sel = Unique(df_full.rows, "Status"))
                   => df = df_full.rows

C5_Witness ==
    pc = "guard" /\ Len(df) > 0 /\ Len(df) < Len(df_full.rows)

\* C6: a run with a loaded dataset and an empty filter result ends with the "no
\* results" notice and renders no metric, chart or table, and without the load error;
\* a run whose load failed never shows the "no results" notice.
C6_EmptyResultNotice ==
    /\ (pc = "idle" /\ halt = "empty") =>
            /\ df_full.cols
            /\ df = <<>>
            /\ out[Len(out)] = "warning"
            /\ ~HasAny(DashboardElements)
            /\ ~metrics.shown
            /\ charts = <<>>
            /\ ~Has("error_load")
    /\ (pc \in {"metrics", "charts", "table"} \/ (pc = "idle" /\ halt = "end")) => df # <<>>
    /\ (PastLoad /\ ~df_full.cols) => ~Has("warning")

C6_Witness ==
    pc = "idle" /\ halt = "empty" /\ df_full.cols /\ Len(df_full.rows) > 0

RECURSIVE ExactSum(_, _, _)
ExactSum(rows, col, i) ==
    IF i = 0 THEN 0 ELSE ExactSum(rows, col, i - 1) + rows[i][col].v

C8_CacheKeyedByPayload ==
    PastLoad => df_full = load_data(DADOS_VENDAS).frame

IsSubmission == pc = "idle" /\ pc' = "gate" /\ senha_input' \in Senhas /\ senha_input' # senha_input

\* C9: the dataset is loaded and dashboard content rendered only in a run of an
\* authenticated session; the flag is false at session start, becomes true only on a
\* submission equal to the stored credential; a mismatching submission leaves it
\* false, shows an error, and the run prompts again.
C9_AccessGate ==
    /\ ~logado
    /\ []((pc \in {"load"} \/ PastLoad \/ HasAny(FilterWidgets \cup DashboardElements \cup {"warning", "error_load"}))
            => logado)
    /\ []((pc = "idle" /\ ~logado) => (halt = "login" /\ out[Len(out)] = "senha_input"))
    /\ [][cache' # cache => logado]_vars
    /\ [][(~logado /\ logado') => (IsSubmission /\ senha_input' = SENHA_ACESSO)]_vars
    /\ [][(IsSubmission /\ ~logado /\ senha_input' # SENHA_ACESSO)
            => (~logado' /\ out' = <<"error_senha">>)]_vars

C9_Witness ==
    pc = "idle" /\ ~logado /\ Has("error_senha") /\ out[Len(out)] = "senha_input"

\* C10: once load_data has produced the dataset, no step of any run changes it: in
\* every run the full dataset is the cached one, and the cached one never changes.
C10_BaseDatasetImmutable ==
    /\ [](PastLoad => df_full = cache.frame)
    /\ [][cache.set => cache' = cache]_vars

C10_Witness ==
    pc = "idle" /\ halt = "end" /\ Len(df) < Len(df_full.rows) /\ charts # <<>>

====
